---- MODULE Spec2Model ----
(***************************************************************************)
(* Model of static/js/app.js: the PatientMonitoringApp class.              *)
(*                                                                         *)
(* The browser runs the class on one thread; every action below is one     *)
(* task of the event loop (a click handler, a timer callback, a display    *)
(* refresh callback, or the continuation of an async function after an     *)
(* await), executed to its next await or return.                           *)
(***************************************************************************)
EXTENDS Integers, Sequences, FiniteSets, TLC

(***************************************************************************)
(* Bounds of the model.                                                    *)
(***************************************************************************)
\* startMonitoring invocations (each may acquire one device handle / timer)
MaxStarts == 2
\* requests of one kind that may be in flight at the same time
MaxInFlight == 2
\* slopes of the synthetic capture frames of the filter harness
MaxSlope == 3
\* canvas widths and heights of the region harness (besides 640 x 480)
MaxDim == 40

(***************************************************************************)
(* Program constants.                                                      *)
(***************************************************************************)
PIXELATION_SIZE == 16

\* The value JavaScript's null is modelled by (stream, analysisInterval).
Null == 0

(***************************************************************************)
(* Pixel buffers.  A buffer is [w, h, data] with data the flat RGBA array  *)
(* of ImageData: data[(row * w + col) * 4 + channel], values 0..255.       *)
(***************************************************************************)
\* An array as a value: the function f with every element computed once (TLC
\* would otherwise recompute an element of a function expression at each read).
Evaluated(f) == IF f = [i \in {} |-> 0] THEN f ELSE f

\* A synthetic capture frame: opaque pixels whose colour varies with the
\* position (slopes a, b) and the channel.
MakeFrame(w, h, a, b, base) ==
    [w |-> w, h |-> h,
     data |-> Evaluated([i \in 0..(w * h * 4 - 1) |->
                 LET p == i \div 4
                     c == i % 4
                     col == p % w
                     row == p \div w
                 IN IF c = 3 THEN 255
                    ELSE (base + a * col + b * row + 37 * c) % 256])]

\* faceRegion with its origin and size rounded up instead of down.
FaceRegionCeil(w, h) ==
    [x |-> (w + 3) \div 4, y |-> (h + 19) \div 20,
     width |-> (w + 1) \div 2, height |-> (h * 45 + 99) \div 100]

\* faceRegion of applyPrivacyFilter.  Math.floor(w * 0.25) and
\* Math.floor(w * 0.5) are exact; Math.floor(h * 0.05) and Math.floor(h * 0.45)
\* agree with the integer quotients below for every h below 5000.
FaceRegion(w, h) ==
    [x |-> w \div 4, y |-> h \div 20, width |-> w \div 2, height |-> (h * 45) \div 100]

\* ctx.getImageData(x, y, width, height): a copy of the region's pixels.
GetImageData(buf, reg) ==
  Evaluated(
    [i \in 0..(reg.width * reg.height * 4 - 1) |->
        LET p == i \div 4
            col == p % reg.width
            row == p \div reg.width
        IN buf.data[((reg.y + row) * buf.w + (reg.x + col)) * 4 + (i % 4)]])

\* ctx.putImageData(imageData, x, y): the region's pixels replaced.
PutImageData(buf, data, reg) ==
    [buf EXCEPT !.data = Evaluated(
        [i \in DOMAIN buf.data |->
            LET p == i \div 4
                col == p % buf.w
                row == p \div buf.w
            IN IF /\ col >= reg.x /\ col < reg.x + reg.width
                  /\ row >= reg.y /\ row < reg.y + reg.height
               THEN data[((row - reg.y) * reg.width + (col - reg.x)) * 4 + (i % 4)]
               ELSE buf.data[i]])]

\* The inner loop of pass 1 (lines 153-159) for one channel c: the sum over
\* dx of row y + dy of the block, columns outside the region skipped.
RECURSIVE RowSum(_, _, _, _, _, _)
RowSum(data, reg, x, row, c, dx) ==
    IF dx >= PIXELATION_SIZE \/ x + dx >= reg.width THEN 0
    ELSE data[(row * reg.width + (x + dx)) * 4 + c]
         + RowSum(data, reg, x, row, c, dx + 1)

\* The outer loop of pass 1 (lines 152-160): the sum over dy.
RECURSIVE BlockSum(_, _, _, _, _, _)
BlockSum(data, reg, x, y, c, dy) ==
    IF dy >= PIXELATION_SIZE \/ y + dy >= reg.height THEN 0
    ELSE RowSum(data, reg, x, y + dy, c, 0)
         + BlockSum(data, reg, x, y, c, dy + 1)

\* count taken as the size of a whole block, whatever part of it the region
\* holds.
BlockCountFull(reg, x, y) == PIXELATION_SIZE * PIXELATION_SIZE

\* count of pass 1: the pixels of the block inside the region.
BlockCount(reg, x, y) ==
    Cardinality({k \in 0..(PIXELATION_SIZE * PIXELATION_SIZE - 1) :
                    /\ y + (k \div PIXELATION_SIZE) < reg.height
                    /\ x + (k % PIXELATION_SIZE) < reg.width})

\* PixelateBlock with the averages rounded to nearest instead of floored.
PixelateBlockRounded(data, reg, x, y) ==
    LET count == BlockCount(reg, x, y)
        avg == Evaluated([c \in 0..2 |->
                  (2 * BlockSum(data, reg, x, y, c, 0) + count) \div (2 * count)])
    IN Evaluated([i \in DOMAIN data |->
          LET p == i \div 4
              col == p % reg.width
              row == p \div reg.width
          IN IF /\ col >= x /\ col < x + PIXELATION_SIZE
                /\ row >= y /\ row < y + PIXELATION_SIZE
                /\ i % 4 \in {0, 1, 2}
             THEN avg[i % 4]
             ELSE data[i]])

\* One iteration of the block loops (lines 150-173): average, then overwrite
\* R, G and B of the block's pixels in the data array.
PixelateBlock(data, reg, x, y) ==
    LET count == BlockCount(reg, x, y)
        avg == Evaluated([c \in 0..2 |-> BlockSum(data, reg, x, y, c, 0) \div count])
    IN Evaluated([i \in DOMAIN data |->
          LET p == i \div 4
              col == p % reg.width
              row == p \div reg.width
          IN IF /\ col >= x /\ col < x + PIXELATION_SIZE
                /\ row >= y /\ row < y + PIXELATION_SIZE
                /\ i % 4 \in {0, 1, 2}
             THEN avg[i % 4]
             ELSE data[i]])

\* The block loops (lines 148-175), row-major; n is the number of blocks done.
RECURSIVE PixelateFrom(_, _, _)
PixelateFrom(data, reg, n) ==
    LET perRow == (reg.width + PIXELATION_SIZE - 1) \div PIXELATION_SIZE
        rows == (reg.height + PIXELATION_SIZE - 1) \div PIXELATION_SIZE
    IN IF n >= perRow * rows THEN data
       ELSE PixelateFrom(
                PixelateBlock(data, reg, (n % perRow) * PIXELATION_SIZE,
                                         (n \div perRow) * PIXELATION_SIZE),
                reg, n + 1)

\* applyPrivacyFilter on the display buffer.
ApplyPrivacyFilter(buf) ==
    LET reg == FaceRegion(buf.w, buf.h)
    IN PutImageData(buf, PixelateFrom(GetImageData(buf, reg), reg, 0), reg)

(***************************************************************************)
(* The snapshot analyzeFrame transmits.                                    *)
(***************************************************************************)
\* tempCtx.drawImage(source, 0, 0, w * 0.5, h * 0.5): the source scaled to half
\* its size (a canvas dimension truncates to an integer); each pixel of the
\* result is the floored mean of the 2 x 2 source pixels it covers.
Downscale(buf) ==
    LET tw == buf.w \div 2
        th == buf.h \div 2
    IN [w |-> tw, h |-> th,
        data |-> Evaluated([i \in 0..(tw * th * 4 - 1) |->
                   LET p == i \div 4
                       c == i % 4
                       col == p % tw
                       row == p \div tw
                       at(x, y) == buf.data[(y * buf.w + x) * 4 + c]
                   IN (at(2 * col, 2 * row) + at(2 * col + 1, 2 * row)
                       + at(2 * col, 2 * row + 1) + at(2 * col + 1, 2 * row + 1))
                      \div 4])]

\* The body of POST /api/analyze: tempCanvas.toDataURL('image/jpeg', 0.7) of
\* the scaled drawing of `source`, kept as the image that is encoded together
\* with the encoding's parameters (quality in tenths).
Snapshot(source) ==
    [image |-> Downscale(source), mime |-> "image/jpeg", quality |-> "0.7"]

(***************************************************************************)
(* Indicator state: the DOM state updateIndicators and resetIndicators     *)
(* write.  A field of an AnalysisResult that the response lacks is Absent; *)
(* confidences are in hundredths, bar widths in per cent.                  *)
(***************************************************************************)
Absent == -1

KnownEmotions == {"happy", "sad", "angry", "scared", "neutral"}

emotionIcons ==
    [e \in KnownEmotions |->
        CASE e = "happy" -> "&#128522;"
          [] e = "sad" -> "&#128546;"
          [] e = "angry" -> "&#128544;"
          [] e = "scared" -> "&#128552;"
          [] OTHER -> "&#128528;"]

emotionColors ==
    [e \in KnownEmotions |->
        CASE e = "happy" -> "var(--success-color)"
          [] e = "sad" -> "var(--info-color)"
          [] e = "angry" -> "var(--danger-color)"
          [] e = "scared" -> "var(--warning-color)"
          [] OTHER -> "var(--secondary-color)"]

\* JavaScript truthiness of a flag field (true | false | absent).
Truthy(flag) == flag = "true"

\* `${(confidence || dflt) * 100}%` in per cent: an absent or zero confidence
\* is falsy and takes the default.
BarFill(conf, dflt) == IF conf = Absent \/ conf = 0 THEN dflt ELSE conf

capitalizeFirst(str) ==
    CASE str = "happy" -> "Happy"
      [] str = "sad" -> "Sad"
      [] str = "angry" -> "Angry"
      [] str = "scared" -> "Scared"
      [] str = "neutral" -> "Neutral"
      [] str = "confused" -> "Confused"
      [] OTHER -> str

\* The indicator cards as the page shows them before any result.
BaselineIndicators ==
    [fall |-> [active |-> FALSE, text |-> "No Fall Detected", color |-> "",
               width |-> 0, background |-> "var(--success-color)"],
     aggression |-> [active |-> FALSE, text |-> "Normal Behavior", color |-> "",
                     width |-> 0, background |-> "var(--success-color)"],
     risky |-> [active |-> FALSE, text |-> "Safe Position", color |-> "",
                width |-> 0, background |-> "var(--success-color)"],
     emotion |-> [active |-> FALSE, icon |-> "&#128528;", text |-> "Neutral",
                  color |-> "var(--secondary-color)", width |-> 0,
                  background |-> "var(--secondary-color)"]]

\* updateIndicators(results) on the indicator state ind (the emotion card
\* has no active-* class: its active stays FALSE).  An emotion that is
\* no key of emotionColors assigns undefined to style.color and
\* style.background, which the style object ignores: the old value stays.
updateIndicators(ind, results) ==
    LET emotion == IF results.emotion = "absent" THEN "neutral" ELSE results.emotion
        known == emotion \in KnownEmotions
    IN [fall |->
          [active |-> Truthy(results.fall_detected),
           text |-> IF Truthy(results.fall_detected)
                    THEN "FALL DETECTED!" ELSE "No Fall Detected",
           color |-> IF Truthy(results.fall_detected)
                     THEN "var(--danger-color)" ELSE "",
           width |-> BarFill(results.fall_confidence, 0),
           background |-> IF Truthy(results.fall_detected)
                          THEN "var(--danger-color)" ELSE "var(--success-color)"],
        aggression |->
          [active |-> Truthy(results.aggression),
           text |-> IF Truthy(results.aggression)
                    THEN "AGGRESSION DETECTED!" ELSE "Normal Behavior",
           color |-> IF Truthy(results.aggression)
                     THEN "var(--warning-color)" ELSE "",
           width |-> BarFill(results.aggression_confidence, 0),
           background |-> IF Truthy(results.aggression)
                          THEN "var(--warning-color)" ELSE "var(--success-color)"],
        risky |->
          [active |-> Truthy(results.risky_behavior),
           text |-> IF Truthy(results.risky_behavior)
                    THEN "RISKY BEHAVIOR!" ELSE "Safe Position",
           color |-> IF Truthy(results.risky_behavior) THEN "#eab308" ELSE "",
           width |-> BarFill(results.risky_confidence, 0),
           background |-> IF Truthy(results.risky_behavior)
                          THEN "#eab308" ELSE "var(--success-color)"],
        emotion |->
          [active |-> FALSE,
           icon |-> IF known THEN emotionIcons[emotion] ELSE emotionIcons["neutral"],
           text |-> capitalizeFirst(emotion),
           color |-> IF known THEN emotionColors[emotion] ELSE ind.emotion.color,
           width |-> BarFill(results.emotion_confidence, 50),
           background |-> IF known THEN emotionColors[emotion]
                          ELSE ind.emotion.background]]

\* The cards document.querySelectorAll('.indicator-card') returns and the
\* bars querySelectorAll('.confidence-fill') returns: all four of each.
IndicatorCards == {"fall", "aggression", "risky", "emotion"}

ConfidenceBars == {"fall", "aggression", "risky", "emotion"}

\* The cards whose status element carries the class indicator-status, the
\* one updateIndicators looks it up by (lines 215, 233, 251).
CardsWithStatus == {"fall", "aggression", "risky"}

\* The loops of resetIndicators for one card and its bar.
ResetCard(card, name) ==
    [card EXCEPT
        !.active = IF name \in IndicatorCards THEN FALSE ELSE @,
        !.color = IF name \in IndicatorCards \cap CardsWithStatus THEN "" ELSE @,
        !.width = IF name \in ConfidenceBars THEN 0 ELSE @]

\* resetIndicators that resets the first bar only (querySelector in place of
\* querySelectorAll).
resetIndicatorsFirstBar(ind) ==
    [name \in DOMAIN ind |->
        IF name = "fall" THEN ResetCard(ind[name], name)
        ELSE [ResetCard(ind[name], name) EXCEPT !.width = ind[name].width]]

\* resetIndicators(): every card loses its active-* classes and its status
\* colour, every confidence bar gets width 0%.  Texts, icons and bar
\* backgrounds are not touched.
resetIndicators(ind) == [name \in DOMAIN ind |-> ResetCard(ind[name], name)]

\* The AnalysisResults the service answers with: the flags and confidences
\* of a fall with nothing else present, a quiet complete result, and an alarm
\* with an emotion the page has no entry for.
Results ==
    {[fall_detected |-> "true", fall_confidence |-> 90,
      aggression |-> "absent", aggression_confidence |-> Absent,
      risky_behavior |-> "absent", risky_confidence |-> Absent,
      emotion |-> "absent", emotion_confidence |-> Absent],
     [fall_detected |-> "false", fall_confidence |-> 10,
      aggression |-> "false", aggression_confidence |-> 5,
      risky_behavior |-> "false", risky_confidence |-> 0,
      emotion |-> "happy", emotion_confidence |-> 80],
     [fall_detected |-> "false", fall_confidence |-> 0,
      aggression |-> "true", aggression_confidence |-> 70,
      risky_behavior |-> "true", risky_confidence |-> 60,
      emotion |-> "confused", emotion_confidence |-> 0]}

(***************************************************************************)
(* State.                                                                  *)
(***************************************************************************)
VARIABLES
    isMonitoring,     \* this.isMonitoring
    stream,           \* this.stream: Null or the handle of a granted device
    analysisInterval, \* this.analysisInterval: Null or a timer id
    startPc,          \* where each startMonitoring invocation stands
    liveTracks,       \* device handles granted and not stopped
    armedTimers,      \* setInterval timers of analyzeFrame not cleared
    rafPending,       \* renderFrame callbacks requestAnimationFrame holds
    canvas,           \* the display buffer (this.canvas)
    controls,         \* overlay and buttons
    badge,            \* the status indicator (#systemStatus)
    errorShown,       \* whether the task that ran last called showError
    indicators,       \* the four indicator cards
    analyzeInFlight,  \* POST /api/analyze requests without a response yet
    lastPayload,      \* body of the most recent POST /api/analyze, or NoPayload
    lastResult,       \* the AnalysisResult received last, or NoResult
    stopToggles,      \* POST /api/status/toggle of stopMonitoring in flight
    serverActive,     \* the service's monitoring_active flag
    alertsInFlight,   \* GET /api/alerts requests without a response yet
    statusInFlight,   \* GET /api/status requests without a response yet
    alertsShown,      \* the alerts #alertsList renders, top first
    lastOp,           \* the task that ran last
    fbuf,             \* filter harness: the display buffer
    fpre,             \* filter harness: the buffer as drawImage left it
    fapplied,         \* filter harness: applyPrivacyFilter calls made on fbuf
    rdim,             \* region harness: canvas.width and canvas.height
    rregion           \* region harness: the faceRegion computed, or NoRegion

appVars == <<isMonitoring, stream, analysisInterval>>
resourceVars == <<liveTracks, armedTimers, rafPending>>
domVars == <<canvas, controls, badge, indicators>>
analysisVars == <<analyzeInFlight, lastPayload, lastResult>>
toggleVars == <<stopToggles, serverActive>>
pollVars == <<alertsInFlight, statusInFlight, alertsShown>>
filterVars == <<fbuf, fpre, fapplied>>
regionVars == <<rdim, rregion>>
harnessVars == <<filterVars, regionVars>>
vars == <<appVars, startPc, resourceVars, domVars, analysisVars, toggleVars,
          pollVars, lastOp, errorShown, harnessVars>>

\* Size of the frames the capture device delivers in the session model
\* (video.videoWidth, video.videoHeight).
VideoW == 4
VideoH == 4

\* The frames the video element may show: a colour gradient.
Frames == {MakeFrame(VideoW, VideoH, 30, 50, 10)}

\* A canvas whose width and height were just set: transparent black.
BlankCanvas(w, h) ==
    [w |-> w, h |-> h, data |-> Evaluated([i \in 0..(w * h * 4 - 1) |-> 0])]

\* ctx.drawImage(video, 0, 0, canvas.width, canvas.height) with the canvas
\* sized to the video: the frame's pixels, one to one.
drawImage(cv, frame) == [cv EXCEPT !.data = frame.data]

NoPayload == [image |-> BlankCanvas(0, 0), mime |-> "none", quality |-> "none"]

\* No response of POST /api/analyze was applied yet.
NoResult == [emotion |-> "none"]

\* faceRegion before applyPrivacyFilter computed it.
NoRegion == [x |-> -1, y |-> -1, width |-> -1, height |-> -1]

Invocations == 1..MaxStarts

\* The state after the constructor and init(): nothing acquired, loadAlerts()
\* and updateSystemStatus() each have one request in flight, and the page
\* shows its initial markup.
SessionInit ==
    /\ isMonitoring = FALSE
    /\ stream = Null
    /\ analysisInterval = Null
    /\ startPc = [i \in Invocations |-> "idle"]
    /\ liveTracks = {}
    /\ armedTimers = {}
    /\ rafPending = 0
    /\ canvas = BlankCanvas(VideoW, VideoH)
    /\ controls = [overlayHidden |-> FALSE, startDisabled |-> FALSE, stopDisabled |-> TRUE]
    /\ badge = [text |-> "System Ready", active |-> FALSE]
    /\ indicators = BaselineIndicators
    /\ analyzeInFlight = 0
    /\ lastPayload = NoPayload
    /\ lastResult = NoResult
    /\ stopToggles = 0
    /\ serverActive = FALSE
    /\ alertsInFlight = 1
    /\ statusInFlight = 1
    /\ alertsShown = << >>
    /\ lastOp = "init"
    /\ errorShown = FALSE

FilterIdle ==
    /\ fpre = BlankCanvas(0, 0)
    /\ fbuf = BlankCanvas(0, 0)
    /\ fapplied = 0

RegionIdle ==
    /\ rdim = <<VideoW, VideoH>>
    /\ rregion = NoRegion

Init == SessionInit /\ FilterIdle /\ RegionIdle

(***************************************************************************)
(* startMonitoring, one action per stretch between awaits.                 *)
(***************************************************************************)
\* startMonitoring() up to `await getUserMedia(...)`.  Invocations are taken
\* in order.
StartMonitoring(i) ==
    /\ startPc[i] = "idle"
    /\ IF i = 1 THEN TRUE ELSE startPc[i - 1] # "idle"
    /\ startPc' = [startPc EXCEPT ![i] = "getUserMedia"]
    /\ lastOp' = "startMonitoring"
    /\ errorShown' = FALSE
    /\ UNCHANGED <<appVars, resourceVars, domVars, analysisVars, toggleVars,
                   pollVars, harnessVars>>

\* getUserMedia resolves with a new stream (handle i): lines 58-68 up to
\* `await this.video.play()`.
DeviceGranted(i) ==
    /\ startPc[i] = "getUserMedia"
    /\ liveTracks' = liveTracks \cup {i}
    /\ stream' = i
    /\ startPc' = [startPc EXCEPT ![i] = "play"]
    /\ lastOp' = "deviceGranted"
    /\ errorShown' = FALSE
    /\ UNCHANGED <<isMonitoring, analysisInterval, armedTimers, rafPending,
                   domVars, analysisVars, toggleVars, pollVars, harnessVars>>

\* The catch block without its showError call.
DeviceDeniedSilently(i) ==
    /\ startPc[i] = "getUserMedia"
    /\ startPc' = [startPc EXCEPT ![i] = "done"]
    /\ errorShown' = FALSE
    /\ lastOp' = "deviceDenied"
    /\ UNCHANGED <<appVars, resourceVars, domVars, analysisVars, toggleVars,
                   pollVars, harnessVars>>

\* getUserMedia rejects (permission denied, no device): the catch block,
\* lines 88-91.
DeviceDenied(i) ==
    /\ startPc[i] = "getUserMedia"
    /\ startPc' = [startPc EXCEPT ![i] = "done"]
    /\ errorShown' = TRUE
    /\ lastOp' = "deviceDenied"
    /\ UNCHANGED <<appVars, resourceVars, domVars,
                   analysisVars, toggleVars, pollVars, harnessVars>>

\* renderFrame that copies the frame and leaves the filter to a later task.
renderFrameUnfiltered(cv, frame) == drawImage(cv, frame)

\* The drawing part of renderFrame (lines 121-123) with the video showing
\* `frame`: the frame is copied and the face region is filtered.
renderFrame(cv, frame) == ApplyPrivacyFilter(drawImage(cv, frame))

\* video.play() resolves: lines 70-86 up to `await fetch(toggle)`.  Setting
\* the canvas size clears it; renderFrame() runs with isMonitoring true and
\* schedules itself; a new interval timer (id i) is armed and stored.
PlayResolved(i) ==
    /\ startPc[i] = "play"
    /\ \E frame \in Frames :
          canvas' = renderFrame(BlankCanvas(frame.w, frame.h), frame)
    /\ isMonitoring' = TRUE
    /\ controls' = [overlayHidden |-> TRUE, startDisabled |-> TRUE, stopDisabled |-> FALSE]
    /\ badge' = [text |-> "Monitoring Active", active |-> TRUE]
    /\ rafPending' = rafPending + 1
    /\ analysisInterval' = i
    /\ armedTimers' = armedTimers \cup {i}
    /\ startPc' = [startPc EXCEPT ![i] = "toggle"]
    /\ lastOp' = "playResolved"
    /\ errorShown' = FALSE
    /\ UNCHANGED <<stream, liveTracks, indicators,
                   analysisVars, toggleVars, pollVars, harnessVars>>

\* video.play() rejects: the catch block.
PlayRejected(i) ==
    /\ startPc[i] = "play"
    /\ startPc' = [startPc EXCEPT ![i] = "done"]
    /\ errorShown' = TRUE
    /\ lastOp' = "playRejected"
    /\ UNCHANGED <<appVars, resourceVars, domVars,
                   analysisVars, toggleVars, pollVars, harnessVars>>

\* What a POST /api/status/toggle does to the service's flag by the time it
\* settles with `outcome`: a 2xx answer means the flag was flipped, a non-2xx
\* answer that it was not, and a request that ended in a transport error may
\* or may not have reached the service.
ToggleOutcomes(flag) ==
    {[outcome |-> "ok", flag |-> ~flag],
     [outcome |-> "non2xx", flag |-> flag],
     [outcome |-> "transport", flag |-> flag],
     [outcome |-> "transport", flag |-> ~flag]}

\* The awaited POST /api/status/toggle of startMonitoring settles.  fetch
\* resolves on a 2xx and on a non-2xx answer; a transport error rejects it
\* and runs the catch block.
StartToggleSettled(i) ==
    /\ startPc[i] = "toggle"
    /\ startPc' = [startPc EXCEPT ![i] = "done"]
    /\ \E o \in ToggleOutcomes(serverActive) :
          /\ serverActive' = o.flag
          /\ errorShown' = (o.outcome = "transport")
          /\ lastOp' = IF o.outcome = "ok" THEN "startToggleOk" ELSE "startToggleFailed"
    /\ stopToggles' = stopToggles
    /\ UNCHANGED <<appVars, resourceVars, domVars,
                   analysisVars, pollVars, harnessVars>>

(***************************************************************************)
(* stopMonitoring.                                                         *)
(***************************************************************************)
\* stopMonitoring(), lines 94-116.  It has no guard on the session state.
StopMonitoring ==
    /\ stopToggles < MaxInFlight
    /\ isMonitoring' = FALSE
    /\ liveTracks' = IF stream # Null THEN liveTracks \ {stream} ELSE liveTracks
    /\ stream' = Null
    /\ armedTimers' = IF analysisInterval # Null
                      THEN armedTimers \ {analysisInterval} ELSE armedTimers
    /\ analysisInterval' = Null
    /\ controls' = [overlayHidden |-> FALSE, startDisabled |-> FALSE, stopDisabled |-> TRUE]
    /\ badge' = [text |-> "System Ready", active |-> FALSE]
    /\ indicators' = resetIndicators(indicators)
    /\ stopToggles' = stopToggles + 1
    /\ serverActive' = serverActive
    /\ lastOp' = IF isMonitoring THEN "stopActive" ELSE "stopIdle"
    /\ errorShown' = FALSE
    /\ UNCHANGED <<startPc, rafPending, canvas,
                   analysisVars, pollVars, harnessVars>>

\* The fire-and-forget POST /api/status/toggle of stopMonitoring settles;
\* nothing awaits it.
StopToggleSettled ==
    /\ stopToggles > 0
    /\ stopToggles' = stopToggles - 1
    /\ \E o \in ToggleOutcomes(serverActive) :
          /\ serverActive' = o.flag
          /\ lastOp' = IF o.outcome = "ok" THEN "stopToggleOk" ELSE "stopToggleFailed"
    /\ errorShown' = FALSE
    /\ UNCHANGED <<appVars, startPc, resourceVars, domVars, analysisVars,
                   pollVars, harnessVars>>

(***************************************************************************)
(* The redraw cycle and the analysis sampler.                              *)
(***************************************************************************)
\* A requestAnimationFrame callback runs renderFrame(), lines 118-126.
RenderFrameCallback ==
    /\ rafPending > 0
    /\ IF isMonitoring
       THEN /\ \E frame \in Frames : canvas' = renderFrame(canvas, frame)
            /\ rafPending' = rafPending
            /\ lastOp' = "renderFrame"
       ELSE /\ canvas' = canvas
            /\ rafPending' = rafPending - 1
            /\ lastOp' = "renderFrameReturned"
    /\ errorShown' = FALSE
    /\ UNCHANGED <<appVars, startPc, liveTracks, armedTimers, controls, badge,
                   indicators, analysisVars, toggleVars, pollVars,
                   harnessVars>>

\* The image analyzeFrame draws into tempCanvas (line 190): the video
\* element's current frame.
SnapshotSource(cv, frame) == frame

\* Interval timer t fires analyzeFrame(), lines 180-200 up to `await fetch`.
AnalysisTick(t) ==
    /\ t \in armedTimers
    /\ IF isMonitoring
       THEN /\ analyzeInFlight < MaxInFlight
            /\ analyzeInFlight' = analyzeInFlight + 1
            /\ \E frame \in Frames :
                  lastPayload' = Snapshot(SnapshotSource(canvas, frame))
            /\ lastResult' = lastResult
            /\ lastOp' = "analyzeSent"
       ELSE /\ UNCHANGED analysisVars
            /\ lastOp' = "analyzeReturned"
    /\ errorShown' = FALSE
    /\ UNCHANGED <<appVars, startPc, resourceVars, domVars, toggleVars,
                   pollVars, harnessVars>>

\* What analyzeFrame does with a 2xx response (lines 202-205).
ApplyAnalysis(ind, results) == updateIndicators(ind, results)

\* The response of a POST /api/analyze arrives: lines 202-209.
AnalyzeResponse ==
    /\ analyzeInFlight > 0
    /\ analyzeInFlight' = analyzeInFlight - 1
    /\ \/ \E results \in Results :
             /\ indicators' = ApplyAnalysis(indicators, results)
             /\ lastResult' = results
             /\ lastOp' = "analyzeOk"
       \/ /\ indicators' = indicators
          /\ lastResult' = lastResult
          /\ lastOp' = "analyzeFailed"
    /\ errorShown' = FALSE
    /\ UNCHANGED <<appVars, startPc, resourceVars, canvas, controls, badge,
                   lastPayload, toggleVars, pollVars, harnessVars>>

(***************************************************************************)
(* The alert feed and the system status, polled every ALERTS_POLL_INTERVAL *)
(* by the interval timer init() arms and nothing clears.                   *)
(***************************************************************************)
RECURSIVE reverse(_)
reverse(seq) ==
    IF seq = << >> THEN << >> ELSE Append(reverse(Tail(seq)), Head(seq))

\* The limit loadAlerts asks the service for (/api/alerts?limit=20).
AlertLimit == 20

\* The lists of alerts (oldest first) the service may answer with: none, a
\* few, and one alert more than the limit asked for.
ServiceAlertLists ==
    {<< >>, <<1, 2, 3>>, <<2, 3>>, [i \in 1..(AlertLimit + 1) |-> i]}

\* What fetch gives loadAlerts: a transport error, or a response with a
\* status and a body that is no JSON ("unparseable"), a JSON object that is
\* no array ("object"), or a JSON array of alerts.  Only a 2xx response
\* carries an array.
AlertResponses ==
    {[kind |-> "transport", ok |-> FALSE, json |-> "none", alerts |-> << >>]}
    \cup {[kind |-> "response", ok |-> o, json |-> j, alerts |-> << >>] :
             o \in BOOLEAN, j \in {"unparseable", "object"}}
    \cup {[kind |-> "response", ok |-> TRUE, json |-> "array", alerts |-> l] :
             l \in ServiceAlertLists}

\* renderAlerts(alerts) for an array: the placeholder (no alert shown) for an
\* empty one, else the alerts in reverse order.
renderAlerts(alerts) == IF alerts = << >> THEN << >> ELSE reverse(alerts)

\* loadAlerts() after its fetch (lines 315-320): response.ok is not looked
\* at; a body that does not parse and the TypeError of reverse() on a
\* non-array are caught.
loadAlerts(shown, resp) ==
    IF resp.kind = "transport" \/ resp.json # "array"
    THEN shown
    ELSE renderAlerts(resp.alerts)

\* What fetch gives updateSystemStatus: a transport error, or a response
\* whose body is no JSON, or JSON with monitoring_active true ("active"),
\* false ("inactive") or missing ("object").
StatusResponses ==
    {[kind |-> "transport", ok |-> FALSE, body |-> "none"]}
    \cup {[kind |-> "response", ok |-> TRUE, body |-> b] : b \in {"active", "inactive"}}
    \cup {[kind |-> "response", ok |-> FALSE, body |-> b] : b \in {"unparseable", "object"}}

\* updateSystemStatus() after its fetch (lines 385-402): response.ok is not
\* looked at.
updateSystemStatus(bdg, resp) ==
    IF resp.kind = "transport" \/ resp.body = "unparseable"
    THEN bdg
    ELSE IF resp.body = "active"
         THEN [text |-> "Monitoring Active", active |-> TRUE]
         ELSE [text |-> "System Ready", active |-> FALSE]

\* The 3000 ms timer fires: loadAlerts() and updateSystemStatus() each send
\* their request.
PollTick ==
    /\ alertsInFlight < MaxInFlight
    /\ statusInFlight < MaxInFlight
    /\ alertsInFlight' = alertsInFlight + 1
    /\ statusInFlight' = statusInFlight + 1
    /\ lastOp' = "pollTick"
    /\ errorShown' = FALSE
    /\ UNCHANGED <<appVars, startPc, resourceVars, domVars, analysisVars,
                   toggleVars, alertsShown, harnessVars>>

\* The fetch of a loadAlerts() settles.
AlertsResponse ==
    /\ alertsInFlight > 0
    /\ alertsInFlight' = alertsInFlight - 1
    /\ \E resp \in AlertResponses :
          /\ alertsShown' = loadAlerts(alertsShown, resp)
          /\ lastOp' = IF resp.kind = "response" /\ resp.ok
                       THEN "alertsOk" ELSE "alertsFailed"
    /\ errorShown' = FALSE
    /\ UNCHANGED <<appVars, startPc, resourceVars, domVars, analysisVars,
                   toggleVars, statusInFlight, harnessVars>>

\* The fetch of an updateSystemStatus() settles.
StatusResponse ==
    /\ statusInFlight > 0
    /\ statusInFlight' = statusInFlight - 1
    /\ \E resp \in StatusResponses :
          /\ badge' = updateSystemStatus(badge, resp)
          /\ lastOp' = IF resp.kind = "response" /\ resp.ok
                       THEN "statusOk" ELSE "statusFailed"
    /\ errorShown' = FALSE
    /\ UNCHANGED <<appVars, startPc, resourceVars, canvas, controls, indicators,
                   analysisVars, toggleVars, alertsInFlight, alertsShown,
                   harnessVars>>

(***************************************************************************)
(* Spec: the session life cycle, with any interleaving of start attempts,  *)
(* stops and the answers they wait for.                                    *)
(***************************************************************************)
Next ==
    \/ \E i \in Invocations :
          \/ StartMonitoring(i)
          \/ DeviceGranted(i)
          \/ DeviceDenied(i)
          \/ PlayResolved(i)
          \/ PlayRejected(i)
          \/ StartToggleSettled(i)
    \/ StopMonitoring
    \/ StopToggleSettled

Spec == Init /\ [][Next]_vars

(***************************************************************************)
(* Properties of the session life cycle.                                   *)
(***************************************************************************)
\* C2: whatever the interleaving of startMonitoring calls, at most one
\* acquired and not yet released device handle exists at any moment.
C2_DeviceAcquiredOnce == Cardinality(liveTracks) <= 1

NoStartPending == \A i \in Invocations : startPc[i] \in {"idle", "done"}

\* C5: once stopMonitoring has returned and no start is pending, no device
\* handle of an earlier start is unreleased and no sampler timer is armed.
C5_StopReleasesEverything ==
    (lastOp \in {"stopActive", "stopIdle"} /\ NoStartPending)
        => (liveTracks = {} /\ armedTimers = {})

\* C6: stopMonitoring on an Idle session is a no-op: no indicator changes,
\* the status indicator does not change, no request is sent.
C6_IdleStopIsNoOp ==
    [][lastOp' = "stopIdle" =>
          /\ indicators' = indicators
          /\ badge' = badge
          /\ stopToggles' = stopToggles]_vars

\* C7: when getUserMedia fails the session stays as it was (Idle stays
\* Idle): no redraw cycle starts, no sampler timer is armed, no status toggle
\* is sent, nothing is acquired, and showError is called.
C7_DeniedStartStaysIdle ==
    [][lastOp' = "deviceDenied" =>
          /\ isMonitoring' = isMonitoring
          /\ rafPending' = rafPending
          /\ armedTimers' = armedTimers /\ analysisInterval' = analysisInterval
          /\ liveTracks' = liveTracks /\ stream' = stream
          /\ stopToggles' = stopToggles
          /\ \A j \in Invocations : startPc'[j] = "toggle" => startPc[j] = "toggle"
          /\ errorShown']_vars

\* A start attempt was just refused the device on an Idle session.
C7_Witness == lastOp = "deviceDenied" /\ ~isMonitoring /\ errorShown

\* C9: a failed status-toggle notification (of start or of stop) is
\* swallowed: the status indicator and the session state stay as they were
\* and no error is shown to the user.
C9_ToggleFailureSwallowed ==
    [][lastOp' \in {"startToggleFailed", "stopToggleFailed"} =>
          /\ badge' = badge
          /\ isMonitoring' = isMonitoring
          /\ ~errorShown']_vars

\* A start is under way: startMonitoring was called and has not returned.
StartInProgress == \E i \in Invocations : startPc[i] \in {"getUserMedia", "play", "toggle"}

\* C20: a start attempt that fails after the device was granted ends with
\* the session Idle and no device handle held: a handle is held only while
\* the session is Active or a start is still in progress.
C20_FailedStartReleasesDevice ==
    /\ liveTracks # {} => (isMonitoring \/ StartInProgress)
    /\ (lastOp \in {"playRejected", "startToggleFailed"} /\ errorShown
           /\ ~StartInProgress) => ~isMonitoring

(***************************************************************************)
(* AnalysisSpec: the analysis sampler and the redraw cycle over sessions   *)
(* that are started one at a time (a start is issued only when no earlier  *)
(* start is still waiting for the device or for playback).                 *)
(***************************************************************************)
StartWhenNonePending(i) ==
    /\ \A j \in Invocations : startPc[j] \notin {"getUserMedia", "play"}
    /\ StartMonitoring(i)

AnalysisNext ==
    \/ \E i \in Invocations :
          \/ StartWhenNonePending(i)
          \/ DeviceGranted(i)
          \/ PlayResolved(i)
    \/ StopMonitoring
    \/ RenderFrameCallback
    \/ \E t \in Invocations : AnalysisTick(t)
    \/ AnalyzeResponse

AnalysisSpec == Init /\ [][AnalysisNext]_vars

(***************************************************************************)
(* Properties of the analysis sampler.                                     *)
(***************************************************************************)
\* The snapshots of masked frames: what analyzeFrame would send if it drew
\* the filtered display buffer.
MaskedSnapshots == {Snapshot(ApplyPrivacyFilter(f)) : f \in Frames}

\* C1: every snapshot sent to POST /api/analyze has the privacy mask applied:
\* it is the snapshot of a frame whose face region was filtered, never of the
\* raw capture.
C1_PayloadIsMasked == lastPayload = NoPayload \/ lastPayload \in MaskedSnapshots

\* The three flag indicators inactive and all four confidence bars at 0%.
AtBaseline(ind) ==
    /\ ~ind.fall.active /\ ~ind.aggression.active /\ ~ind.risky.active
    /\ ind.fall.width = 0 /\ ind.aggression.width = 0
    /\ ind.risky.width = 0 /\ ind.emotion.width = 0

\* C3: a response that arrives after stopMonitoring is not applied: while
\* the session is Idle (from a stop to the next successful start) the
\* indicators stay at the baseline.
C3_IdleKeepsBaseline == ~isMonitoring => AtBaseline(indicators)

\* C4: right after stopMonitoring on an Active session the three flag
\* indicators are inactive and all four confidence bars are at 0%, whatever
\* result was applied last.
C4_StopResetsIndicators == lastOp = "stopActive" => AtBaseline(indicators)

\* An Active session that showed a detected fall was just stopped.
C4_Witness ==
    /\ lastOp = "stopActive"
    /\ indicators.fall.text = "FALL DETECTED!"
    /\ indicators.emotion.background = "var(--secondary-color)"

\* The fill (per cent) a confidence field stands for: 100 times the field if
\* the result has it, else the default.
ProportionalFill(conf, dflt) == IF conf = Absent THEN dflt ELSE conf

\* C13: after updateIndicators(results) each of the four bar fills is 100
\* times its confidence field whenever the field is present (the value 0
\* included) and lies in 0..100 %; an absent fall, aggression or risky
\* confidence gives 0 % and an absent emotion confidence gives 50 %.
C13_BarFillsProportional ==
    lastOp = "analyzeOk" =>
        /\ indicators.fall.width = ProportionalFill(lastResult.fall_confidence, 0)
        /\ indicators.aggression.width
              = ProportionalFill(lastResult.aggression_confidence, 0)
        /\ indicators.risky.width = ProportionalFill(lastResult.risky_confidence, 0)
        /\ indicators.emotion.width
              = ProportionalFill(lastResult.emotion_confidence, 50)
        /\ \A name \in ConfidenceBars : indicators[name].width \in 0..100

\* C14: after updateIndicators(results) with an emotion that is absent or
\* none of happy, sad, angry, scared, neutral, the emotion label shown is the
\* neutral one.
C14_UnknownEmotionShowsNeutral ==
    (lastOp = "analyzeOk" /\ lastResult.emotion \notin KnownEmotions)
        => indicators.emotion.text = capitalizeFirst("neutral")

\* C15: while the session is Active the whole indicator state is a function
\* of the result received last, whatever was received before it: it is what
\* updateIndicators makes of that result on the page as it was loaded.
C15_IndicatorsFromLastResult ==
    (isMonitoring /\ lastOp = "analyzeOk")
        => indicators = updateIndicators(BaselineIndicators, lastResult)

\* C18: after any sequence of starts and stops (a stop followed by a start
\* that completes before the pending display-refresh callback has fired
\* included) at most one redraw cycle is scheduled at any time, and a
\* callback that runs on an Idle session draws nothing.
C18_OneRedrawCycle ==
    [][/\ rafPending' <= 1
       /\ (lastOp' \in {"renderFrame", "renderFrameReturned"} /\ ~isMonitoring)
             => canvas' = canvas]_vars

(***************************************************************************)
(* PollSpec: the three periodic activities (analysis sampler, alert feed,  *)
(* system status) over sessions started one at a time.                     *)
(***************************************************************************)
PollNext ==
    \/ \E i \in Invocations :
          \/ StartWhenNonePending(i)
          \/ DeviceGranted(i)
          \/ PlayResolved(i)
    \/ StopMonitoring
    \/ \E t \in Invocations : AnalysisTick(t)
    \/ AnalyzeResponse
    \/ PollTick
    \/ AlertsResponse
    \/ StatusResponse

PollSpec == Init /\ [][PollNext]_vars

\* C8: a tick of a periodic activity whose request ends in a transport error
\* or a non-2xx response changes neither the session state nor the indicators,
\* the alert list or the status indicator, and the timers stay armed.
C8_FailedTickChangesNothing ==
    [][lastOp' \in {"analyzeFailed", "alertsFailed", "statusFailed"} =>
          /\ isMonitoring' = isMonitoring
          /\ indicators' = indicators
          /\ alertsShown' = alertsShown
          /\ badge' = badge
          /\ armedTimers' = armedTimers]_vars

(***************************************************************************)
(* FeedSpec: the alert feed and the system status on their own.            *)
(***************************************************************************)
FeedNext ==
    \/ PollTick
    \/ AlertsResponse
    \/ StatusResponse

FeedSpec == Init /\ [][FeedNext]_vars

\* C16: after every alert fetch the feed shows at most 20 alerts, in the
\* reverse of the order the service returned them, whatever list the service
\* returned.
C16_FeedBoundedNewestFirst ==
    /\ Len(alertsShown) <= AlertLimit
    /\ \E l \in ServiceAlertLists : alertsShown = reverse(l)

(***************************************************************************)
(* ServiceSpec: the session life cycle together with the service's         *)
(* monitoring_active flag, where every request is answered and every       *)
(* status toggle succeeds.                                                 *)
(***************************************************************************)
StartToggleOk(i) == StartToggleSettled(i) /\ lastOp' = "startToggleOk"

StopToggleOk == StopToggleSettled /\ lastOp' = "stopToggleOk"

ServiceNext ==
    \/ \E i \in Invocations :
          \/ StartMonitoring(i)
          \/ DeviceGranted(i)
          \/ PlayResolved(i)
          \/ StartToggleOk(i)
    \/ StopMonitoring
    \/ StopToggleOk

ServiceSpec == Init /\ [][ServiceNext]_vars

\* No start is under way and no status toggle is in flight.
Quiescent == NoStartPending /\ stopToggles = 0

\* The answer of GET /api/status while the service's flag is `flag`.
ServiceStatus(flag) ==
    [kind |-> "response", ok |-> TRUE,
     body |-> IF flag THEN "active" ELSE "inactive"]

\* C19: with the flag false at page load and flipped by every successful
\* toggle, once all requests of a sequence of starts and stops have completed
\* successfully the service's flag equals whether the session is Active, and
\* a status poll then leaves the status indicator as stop or start set it.
C19_ServiceFlagFollowsSession ==
    Quiescent =>
        /\ serverActive = isMonitoring
        /\ updateSystemStatus(badge, ServiceStatus(serverActive)) = badge

(***************************************************************************)
(* The privacy filter on its own: Init draws a capture frame into the      *)
(* display buffer, FilterApply is one call of applyPrivacyFilter.          *)
(***************************************************************************)
\* Frame sizes: one region of exactly one block, and regions with clipped
\* edge blocks to the right of and below a full block.
FilterDims == {<<32, 36>>, <<40, 40>>, <<33, 37>>}

FilterInputs ==
    {MakeFrame(d[1], d[2], a, b, base) :
        d \in FilterDims, a \in 0..MaxSlope, b \in 0..MaxSlope, base \in {0, 200}}

FilterInit ==
    /\ SessionInit
    /\ fpre \in FilterInputs
    /\ fbuf = fpre
    /\ fapplied = 0
    /\ RegionIdle

FilterApply ==
    /\ fapplied < 2
    /\ fbuf' = ApplyPrivacyFilter(fbuf)
    /\ fapplied' = fapplied + 1
    /\ UNCHANGED <<fpre, appVars, startPc, resourceVars, domVars, analysisVars,
                   toggleVars, pollVars, lastOp, errorShown, regionVars>>

FilterNext == FilterApply

FilterSpec == FilterInit /\ [][FilterNext]_vars

(***************************************************************************)
(* Properties of the privacy filter.                                       *)
(***************************************************************************)
\* The pixel (col, row) of a buffer, channel c.
Px(buf, col, row, c) == buf.data[(row * buf.w + col) * 4 + c]

\* The sum of channel c of buf over the columns x0..x0+n-1 of one row.
RECURSIVE SumCols(_, _, _, _, _)
SumCols(buf, x0, row, c, n) ==
    IF n = 0 THEN 0
    ELSE Px(buf, x0 + n - 1, row, c) + SumCols(buf, x0, row, c, n - 1)

\* The sum of channel c of buf over the n x m rectangle at (x0, y0).
RECURSIVE SumRect(_, _, _, _, _, _)
SumRect(buf, x0, y0, c, n, m) ==
    IF m = 0 THEN 0
    ELSE SumCols(buf, x0, y0 + m - 1, c, n) + SumRect(buf, x0, y0, c, n, m - 1)

\* The origins (frame coordinates) of the blocks that lie wholly inside the
\* face region of a w x h frame.
InteriorBlocks(w, h) ==
    LET reg == FaceRegion(w, h)
    IN {<<reg.x + bx * PIXELATION_SIZE, reg.y + by * PIXELATION_SIZE>> :
          bx \in 0..((reg.width \div PIXELATION_SIZE) - 1),
          by \in 0..((reg.height \div PIXELATION_SIZE) - 1)}

InFaceRegion(w, h, col, row) ==
    LET reg == FaceRegion(w, h)
    IN /\ col >= reg.x /\ col < reg.x + reg.width
       /\ row >= reg.y /\ row < reg.y + reg.height

\* C10: after applyPrivacyFilter every pixel of a fully-interior 16x16 block
\* of the face region has R, G and B equal to the floored mean of the block's
\* pre-filter R, G and B, its alpha is unchanged, and every pixel outside the
\* face region is identical to the input.
C10_InteriorBlocksAveraged ==
    fapplied = 1 =>
        /\ \A o \in InteriorBlocks(fpre.w, fpre.h) :
             \A c \in 0..2 :
               LET mean == SumRect(fpre, o[1], o[2], c, PIXELATION_SIZE, PIXELATION_SIZE)
                             \div (PIXELATION_SIZE * PIXELATION_SIZE)
               IN \A dx \in 0..(PIXELATION_SIZE - 1), dy \in 0..(PIXELATION_SIZE - 1) :
                     Px(fbuf, o[1] + dx, o[2] + dy, c) = mean
        /\ \A col \in 0..(fpre.w - 1), row \in 0..(fpre.h - 1) :
             /\ Px(fbuf, col, row, 3) = Px(fpre, col, row, 3)
             /\ ~InFaceRegion(fpre.w, fpre.h, col, row) =>
                   \A c \in 0..2 : Px(fbuf, col, row, c) = Px(fpre, col, row, c)
        /\ fbuf.w = fpre.w /\ fbuf.h = fpre.h

\* The filter has run on a frame whose face region holds a fully-interior
\* block with a non-integer mean, and it changed the buffer.
C10_Witness ==
    /\ fapplied = 1
    /\ InteriorBlocks(fpre.w, fpre.h) # {}
    /\ fbuf # fpre
    /\ \E o \in InteriorBlocks(fpre.w, fpre.h) :
          SumRect(fpre, o[1], o[2], 0, PIXELATION_SIZE, PIXELATION_SIZE)
             % (PIXELATION_SIZE * PIXELATION_SIZE) >= 128

\* The blocks of the face region of a w x h frame: origin (region
\* coordinates) and the width and height left of the block inside the region.
RegionBlocks(w, h) ==
    LET reg == FaceRegion(w, h)
        clip(o, len) == IF len - o < PIXELATION_SIZE THEN len - o ELSE PIXELATION_SIZE
    IN {[x |-> bx * PIXELATION_SIZE, y |-> by * PIXELATION_SIZE,
         cw |-> clip(bx * PIXELATION_SIZE, reg.width),
         ch |-> clip(by * PIXELATION_SIZE, reg.height)] :
          bx \in 0..((reg.width - 1) \div PIXELATION_SIZE),
          by \in 0..((reg.height - 1) \div PIXELATION_SIZE)}

EdgeBlocks(w, h) ==
    {b \in RegionBlocks(w, h) : b.cw < PIXELATION_SIZE \/ b.ch < PIXELATION_SIZE}

Unaligned(w, h) ==
    \/ FaceRegion(w, h).width % PIXELATION_SIZE # 0
    \/ FaceRegion(w, h).height % PIXELATION_SIZE # 0

\* C11: for a face region whose width or height is no multiple of 16, every
\* edge block is averaged over exactly the pixels of the block clipped to the
\* region (sum of those pixels divided by their number, floored), exactly
\* those pixels take the average, and no pixel outside the region changes.
C11_EdgeBlocksClipped ==
    (fapplied = 1 /\ Unaligned(fpre.w, fpre.h)) =>
        LET reg == FaceRegion(fpre.w, fpre.h)
        IN /\ \A b \in EdgeBlocks(fpre.w, fpre.h) :
                \A c \in 0..2 :
                  LET mean == SumRect(fpre, reg.x + b.x, reg.y + b.y, c, b.cw, b.ch)
                                \div (b.cw * b.ch)
                  IN \A dx \in 0..(b.cw - 1), dy \in 0..(b.ch - 1) :
                        Px(fbuf, reg.x + b.x + dx, reg.y + b.y + dy, c) = mean
           /\ \A col \in 0..(fpre.w - 1), row \in 0..(fpre.h - 1) :
                ~InFaceRegion(fpre.w, fpre.h, col, row) =>
                   \A c \in 0..3 : Px(fbuf, col, row, c) = Px(fpre, col, row, c)

\* The filter has run on a frame whose region has clipped blocks on its right
\* and bottom edges, one of them with a non-integer mean that is not the mean
\* of the first row of the block.
C11_Witness ==
    /\ fapplied = 1
    /\ Unaligned(fpre.w, fpre.h)
    /\ \E b \in EdgeBlocks(fpre.w, fpre.h) :
          LET reg == FaceRegion(fpre.w, fpre.h)
          IN /\ b.cw < PIXELATION_SIZE /\ b.ch < PIXELATION_SIZE
             /\ SumRect(fpre, reg.x + b.x, reg.y + b.y, 0, b.cw, b.ch) % (b.cw * b.ch) # 0
             /\ Px(fbuf, reg.x + b.x, reg.y + b.y, 0)
                   # SumRect(fpre, reg.x + b.x, reg.y + b.y, 0, b.cw, 1) \div b.cw

\* The face region of a display buffer is in the filtered state: each of its
\* blocks shows one colour.
RegionFiltered(buf) ==
    LET reg == FaceRegion(buf.w, buf.h)
    IN \A b \in RegionBlocks(buf.w, buf.h) :
          \A dx \in 0..(b.cw - 1), dy \in 0..(b.ch - 1), c \in 0..2 :
             Px(buf, reg.x + b.x + dx, reg.y + b.y + dy, c)
                = Px(buf, reg.x + b.x, reg.y + b.y, c)

\* C17: renderFrame applies the privacy filter in the same synchronous step
\* that copies the capture frame, so whenever another task can run (between
\* any two steps) the face region of the display buffer is filtered, never
\* the raw copy.
C17_DisplayAlwaysFiltered ==
    /\ RegionFiltered(canvas)
    /\ \A f \in Frames : ~RegionFiltered(f) => canvas.data # f.data

\* A redraw of an Active session has just copied a frame whose face region
\* is not of one colour, with an analysis response still to come.
C17_Witness ==
    /\ lastOp = "renderFrame"
    /\ isMonitoring
    /\ analyzeInFlight > 0
    /\ \E f \in Frames : ~RegionFiltered(f) /\ canvas = ApplyPrivacyFilter(f)

(***************************************************************************)
(* The face region on its own: Init draws the size of the canvas,          *)
(* ComputeRegion is lines 130-138 of applyPrivacyFilter.                   *)
(***************************************************************************)
\* The default canvas size of startMonitoring (videoWidth || 640,
\* videoHeight || 480).
DefaultWidth == 640
DefaultHeight == 480

RegionInit ==
    /\ SessionInit
    /\ FilterIdle
    /\ rdim \in ((1..MaxDim) \cup {DefaultWidth}) \X ((1..MaxDim) \cup {DefaultHeight})
    /\ rregion = NoRegion

ComputeRegion ==
    /\ rregion = NoRegion
    /\ rregion' = FaceRegion(rdim[1], rdim[2])
    /\ UNCHANGED <<rdim, filterVars, appVars, startPc, resourceVars, domVars,
                   analysisVars, toggleVars, pollVars, lastOp, errorShown>>

RegionNext == ComputeRegion

RegionSpec == RegionInit /\ [][RegionNext]_vars

\* C12: for every positive canvas width w and height h the face region
\* satisfies 0 <= x, 0 <= y, x + width <= w and y + height <= h, and for
\* w = 640, h = 480 it is exactly {x: 160, y: 24, width: 320, height: 216}.
C12_RegionInsideFrame ==
    rregion # NoRegion =>
        /\ 0 <= rregion.x /\ 0 <= rregion.y
        /\ 0 <= rregion.width /\ 0 <= rregion.height
        /\ rregion.x + rregion.width <= rdim[1]
        /\ rregion.y + rregion.height <= rdim[2]
        /\ rdim = <<DefaultWidth, DefaultHeight>> =>
              rregion = [x |-> 160, y |-> 24, width |-> 320, height |-> 216]

\* The region of a 640 x 480 canvas has been computed.
C12_Witness == rregion # NoRegion /\ rdim = <<DefaultWidth, DefaultHeight>>

====
